---- MODULE Spec2Model ----
(***************************************************************************)
(* Vote bookkeeping of plenum/server/models.py: TrackedMsgs and its three  *)
(* specialisations Prepares, Commits and InstanceChanges.                  *)
(*                                                                         *)
(* One tracker instance is modelled.  Its class is fixed at construction   *)
(* (variable cls); the instance itself is a dict (variable self) from keys *)
(* to vote records.  Every method call is one atomic action that records   *)
(* the call and its outcome in variable last.                              *)
(*                                                                         *)
(* History variables (they record the run, the code does not hold them):   *)
(*   before  the dict as it was when the last call started;                *)
(*   cast    the (key, voter) pairs of the addVote calls that completed    *)
(*           during the current lifetime of each key's record;             *)
(*   popped  the views pop has been called with.                           *)
(*                                                                         *)
(* Callers: the calls of the specifications Spec, SpecPrepares, ... are    *)
(* atomic.  SpecConcurrent has several threads call into the one tracker   *)
(* under a mutual-exclusion lock (variable holder); there addMsg runs      *)
(* statement by statement, thr holding each thread's position and locals.  *)
(***************************************************************************)
EXTENDS Integers, FiniteSets, Sequences, TLC

VARIABLES cls, self, last, before, cast, popped, holder, thr

vars == <<cls, self, last, before, cast, popped, holder, thr>>

----------------------------------------------------------------------------
(* Bounds of the model *)

NumVoters == 3
MaxVotes == 3
MaxF == 1

VoterNames == <<"A", "B", "C", "D", "E", "F", "G", "H">>
Voters == {VoterNames[i] : i \in 1..NumVoters}
Views == {1, 2}
SeqNos == {5, 6}
Digests == {"d1", "d2"}
Fs == 0..MaxF

Classes == {"Prepares", "Commits", "InstanceChanges"}

\* the threads of the surrounding system that call into one tracker
Threads == {"T1", "T2"}

\* a thread that is in no call
Idle == [pc |-> "idle"]

----------------------------------------------------------------------------
(* Inputs: the values a caller passes as msg *)

\* the (viewNo, ppSeqNo) pairs of the messages sent: a key, a key of the same
\* view with another ppSeqNo, and a key of the same ppSeqNo in another view
Proposals == {<<1, 5>>, <<1, 6>>, <<2, 5>>}

PrepareMsgs ==
    {m \in [type : {"Prepare"}, viewNo : Views, ppSeqNo : SeqNos, digest : Digests] :
        <<m.viewNo, m.ppSeqNo>> \in Proposals}

CommitMsgs ==
    {m \in [type : {"Commit"}, viewNo : Views, ppSeqNo : SeqNos, digest : Digests] :
        <<m.viewNo, m.ppSeqNo>> \in Proposals}

\* a raw view number, as InstanceChanges.addVote(msg: int, ...) is annotated
IntInputs == [type : {"int"}, value : Views]

\* a vote message exposing a viewNo field
InstanceChangeMsgs == [type : {"InstanceChange"}, viewNo : Views]

\* an object that is no int and has no viewNo attribute
BadInputs == {[type |-> "NoneType"]}

Inputs ==
    CASE cls = "Prepares" -> PrepareMsgs
      [] cls = "Commits" -> CommitMsgs
      [] cls = "InstanceChanges" -> IntInputs \cup InstanceChangeMsgs \cup BadInputs

isinstance_int(msg) == msg.type = "int"

hasattr_viewNo(msg) == "viewNo" \in DOMAIN msg

----------------------------------------------------------------------------
(* Vote records *)

ThreePhaseVotes(voters) == [voters |-> voters]

InsChgVotes(viewNo, voters) == [viewNo |-> viewNo, voters |-> voters]

----------------------------------------------------------------------------
(* Per-class key derivation and record construction *)

Prepares_newVoteMsg(msg) == ThreePhaseVotes({})

\* mutant: the digest made part of the key
Prepares_getKey_WithDigest(prepare) ==
    <<prepare.viewNo, prepare.ppSeqNo, prepare.digest>>

\* mutant: the view number used for both components of the key
Prepares_getKey_ViewTwice(prepare) == <<prepare.viewNo, prepare.viewNo>>

Prepares_getKey(prepare) == <<prepare.viewNo, prepare.ppSeqNo>>

Commits_newVoteMsg(msg) == ThreePhaseVotes({})

Commits_getKey(commit) == <<commit.viewNo, commit.ppSeqNo>>

\* msg.viewNo is read unconditionally: an int has no such attribute
InstanceChanges_newVoteMsgRaises(msg) == ~hasattr_viewNo(msg)

\* mutant: the fresh record made for view 0, whatever the message says
InstanceChanges_newVoteMsg_ViewZero(msg) == InsChgVotes(0, {})

InstanceChanges_newVoteMsg(msg) == InsChgVotes(msg.viewNo, {})

InstanceChanges_getKeyRaises(msg) == ~isinstance_int(msg) /\ ~hasattr_viewNo(msg)

\* mutant: a raw view number taken as the current view, the key its successor
InstanceChanges_getKey_NextView(msg) ==
    IF isinstance_int(msg) THEN msg.value + 1 ELSE msg.viewNo

InstanceChanges_getKey(msg) == IF isinstance_int(msg) THEN msg.value ELSE msg.viewNo

\* self.getKey(msg) / self.newVoteMsg(msg): dispatch on the instance's class
getKeyRaises(msg) ==
    cls = "InstanceChanges" /\ InstanceChanges_getKeyRaises(msg)

getKey(msg) ==
    CASE cls = "Prepares" -> Prepares_getKey(msg)
      [] cls = "Commits" -> Commits_getKey(msg)
      [] cls = "InstanceChanges" -> InstanceChanges_getKey(msg)

newVoteMsgRaises(msg) ==
    cls = "InstanceChanges" /\ InstanceChanges_newVoteMsgRaises(msg)

newVoteMsg(msg) ==
    CASE cls = "Prepares" -> Prepares_newVoteMsg(msg)
      [] cls = "Commits" -> Commits_newVoteMsg(msg)
      [] cls = "InstanceChanges" -> InstanceChanges_newVoteMsg(msg)

----------------------------------------------------------------------------
(* TrackedMsgs: the generic methods.  d is the dict the method is called on *)

\* d[key] = rec
SetItem(d, key, rec) ==
    [k \in DOMAIN d \cup {key} |-> IF k = key THEN rec ELSE d[k]]

\* mutant: voters ^= {voter}, a second vote of a voter takes the first back
VotersAdd_Toggle(d, key, voter) ==
    [d EXCEPT ![key].voters = (@ \cup {voter}) \ (@ \cap {voter})]

\* d[key].voters.add(voter)
VotersAdd(d, key, voter) ==
    [d EXCEPT ![key].voters = @ \cup {voter}]

\* mutant: the test left out, every vote starts a new record
NeedsNewRecord_Always(d, key) == TRUE

\* if key not in self
NeedsNewRecord(d, key) == key \notin DOMAIN d

\* the exception addMsg raises, "none" when it returns
addMsgRaises(d, msg) ==
    IF getKeyRaises(msg) THEN "AttributeError"
    ELSE IF getKey(msg) \notin DOMAIN d /\ newVoteMsgRaises(msg) THEN "AttributeError"
    ELSE "none"

\* the dict after addMsg(msg, voter); an exception leaves it as it was
addMsg(d, msg, voter) ==
    IF addMsgRaises(d, msg) # "none" THEN d
    ELSE LET key == getKey(msg)
             d1 == IF key \notin DOMAIN d THEN SetItem(d, key, newVoteMsg(msg)) ELSE d
         IN VotersAdd(d1, key, voter)

\* mutant: the record looked up with setdefault, which creates a missing one
dictAfterQuery_SetDefault(d, msg) ==
    IF getKey(msg) \in DOMAIN d \/ newVoteMsgRaises(msg) THEN d
    ELSE SetItem(d, getKey(msg), newVoteMsg(msg))

\* the dict after hasMsg, hasVote or hasEnoughVotes: they test "key in self"
\* and read self[key] only behind that test, and assign nothing
dictAfterQuery(d, msg) == d

hasMsg(d, msg) == getKey(msg) \in DOMAIN d

\* mutant: the "voter in self[key].voters" test left out
hasVote_KeyOnly(d, msg, voter) ==
    LET key == getKey(msg) IN key \in DOMAIN d

hasVote(d, msg, voter) ==
    LET key == getKey(msg) IN key \in DOMAIN d /\ voter \in d[key].voters

\* mutant: len(self.get(key, no voters)) >= count, without the hasMsg test
hasEnoughVotes_NoPresenceTest(d, msg, count) ==
    LET key == getKey(msg)
        voters == IF key \in DOMAIN d THEN d[key].voters ELSE {}
    IN Cardinality(voters) >= count

\* mutant: <= count in place of >= count
hasEnoughVotes_AtMost(d, msg, count) ==
    LET key == getKey(msg) IN hasMsg(d, msg) /\ Cardinality(d[key].voters) <= count

\* mutant: == count in place of >= count
hasEnoughVotes_Exactly(d, msg, count) ==
    LET key == getKey(msg) IN hasMsg(d, msg) /\ Cardinality(d[key].voters) = count

hasEnoughVotes(d, msg, count) ==
    LET key == getKey(msg) IN hasMsg(d, msg) /\ Cardinality(d[key].voters) >= count

----------------------------------------------------------------------------
(* The public methods of the three classes *)

\* mutant: the full quorum 2f + 1 asked of PREPAREs
Prepares_hasQuorum_FullQuorum(d, prepare, f) == hasEnoughVotes(d, prepare, 2 * f + 1)

Prepares_hasQuorum(d, prepare, f) == hasEnoughVotes(d, prepare, 2 * f)

\* mutant: the PREPARE threshold 2f asked of COMMITs
Commits_hasQuorum_TwoF(d, commit, f) == hasEnoughVotes(d, commit, 2 * f)

Commits_hasQuorum(d, commit, f) == hasEnoughVotes(d, commit, 2 * f + 1)

\* mutant: the PREPARE threshold 2f asked of instance changes
InstanceChanges_hasQuorum_TwoF(d, viewNo, f) == hasEnoughVotes(d, viewNo, 2 * f)

InstanceChanges_hasQuorum(d, viewNo, f) == hasEnoughVotes(d, viewNo, 2 * f + 1)

hasQuorum(d, msg, f) ==
    CASE cls = "Prepares" -> Prepares_hasQuorum(d, msg, f)
      [] cls = "Commits" -> Commits_hasQuorum(d, msg, f)
      [] cls = "InstanceChanges" -> InstanceChanges_hasQuorum(d, msg, f)

\* mutant: super().pop(key), without the default
InstanceChanges_popRaises_NoDefault(d, key) ==
    IF key \in DOMAIN d THEN "none" ELSE "KeyError"

\* super().pop(key, None): the default None keeps dict.pop from raising KeyError
InstanceChanges_popRaises(d, key) == "none"

\* mutant: self[key].voters.clear(), the record kept with no voters
InstanceChanges_pop_ClearVoters(d, key) ==
    IF key \in DOMAIN d THEN [d EXCEPT ![key].voters = {}] ELSE d

\* mutant: self.clear(), every view's record dropped
InstanceChanges_pop_All(d, key) == <<>>

InstanceChanges_pop(d, key) == [k \in DOMAIN d \ {key} |-> d[k]]

----------------------------------------------------------------------------
(* State machine *)

TotalVotes(d) == Cardinality({kv \in (DOMAIN d) \X Voters : kv[2] \in d[kv[1]].voters})

Call(op, msg, voter, f, exc, ret) ==
    [op |-> op, msg |-> msg, voter |-> voter, f |-> f, exc |-> exc, ret |-> ret]

Init ==
    /\ cls \in Classes
    /\ self = <<>>
    /\ last = [op |-> "init"]
    /\ before = <<>>
    /\ cast = {}
    /\ popped = {}
    /\ holder = "none"
    /\ thr = [t \in Threads |-> Idle]

\* addVote(msg, voter) of all three classes: super().addMsg(msg, voter)
AddVote ==
    \E msg \in Inputs, voter \in Voters :
        /\ holder = "none"
        /\ \/ TotalVotes(self) < MaxVotes
           \/ (~getKeyRaises(msg) /\ hasVote(self, msg, voter))
        /\ self' = addMsg(self, msg, voter)
        /\ last' = Call("addVote", msg, voter, -1, addMsgRaises(self, msg), FALSE)
        /\ before' = self
        /\ cast' = IF addMsgRaises(self, msg) = "none"
                   THEN cast \cup {<<getKey(msg), voter>>}
                   ELSE cast
        /\ UNCHANGED <<cls, popped, holder, thr>>

\* hasPrepare / hasCommit / hasView: super().hasMsg(msg)
HasMsg ==
    \E msg \in Inputs :
        /\ holder = "none"
        /\ last' = IF getKeyRaises(msg)
                   THEN Call("hasMsg", msg, "-", -1, "AttributeError", FALSE)
                   ELSE Call("hasMsg", msg, "-", -1, "none", hasMsg(self, msg))
        /\ self' = IF getKeyRaises(msg) THEN self ELSE dictAfterQuery(self, msg)
        /\ before' = self
        /\ UNCHANGED <<cls, cast, popped, holder, thr>>

\* hasPrepareFrom / hasCommitFrom / hasInstChngFrom: super().hasVote(msg, voter)
HasVote ==
    \E msg \in Inputs, voter \in Voters :
        /\ holder = "none"
        /\ last' = IF getKeyRaises(msg)
                   THEN Call("hasVote", msg, voter, -1, "AttributeError", FALSE)
                   ELSE Call("hasVote", msg, voter, -1, "none", hasVote(self, msg, voter))
        /\ self' = IF getKeyRaises(msg) THEN self ELSE dictAfterQuery(self, msg)
        /\ before' = self
        /\ UNCHANGED <<cls, cast, popped, holder, thr>>

\* hasQuorum(msg, f) of all three classes
HasQuorum ==
    \E msg \in Inputs, f \in Fs :
        /\ holder = "none"
        /\ last' = IF getKeyRaises(msg)
                   THEN Call("hasQuorum", msg, "-", f, "AttributeError", FALSE)
                   ELSE Call("hasQuorum", msg, "-", f, "none", hasQuorum(self, msg, f))
        /\ self' = IF getKeyRaises(msg) THEN self ELSE dictAfterQuery(self, msg)
        /\ before' = self
        /\ UNCHANGED <<cls, cast, popped, holder, thr>>

\* InstanceChanges.pop(key), called with a view number
Pop ==
    \E key \in Views :
        /\ cls = "InstanceChanges"
        /\ holder = "none"
        /\ self' = IF InstanceChanges_popRaises(self, key) = "none"
                   THEN InstanceChanges_pop(self, key)
                   ELSE self
        /\ last' = Call("pop", [type |-> "int", value |-> key], "-", -1,
                        InstanceChanges_popRaises(self, key), FALSE)
        /\ before' = self
        /\ cast' = IF InstanceChanges_popRaises(self, key) = "none"
                   THEN {kv \in cast : kv[1] # key}
                   ELSE cast
        /\ popped' = popped \cup {key}
        /\ UNCHANGED <<cls, holder, thr>>

\* the methods the Prepares and Commits classes define
NextThreePhase == AddVote \/ HasMsg \/ HasVote \/ HasQuorum

Next == AddVote \/ HasMsg \/ HasVote \/ HasQuorum \/ Pop

\* a tracker of any of the three classes
Spec == Init /\ [][Next]_vars

\* a Prepares tracker
InitPrepares ==
    /\ cls = "Prepares"
    /\ self = <<>>
    /\ last = [op |-> "init"]
    /\ before = <<>>
    /\ cast = {}
    /\ popped = {}
    /\ holder = "none"
    /\ thr = [t \in Threads |-> Idle]

SpecPrepares == InitPrepares /\ [][NextThreePhase]_vars

\* a Commits tracker
InitCommits ==
    /\ cls = "Commits"
    /\ self = <<>>
    /\ last = [op |-> "init"]
    /\ before = <<>>
    /\ cast = {}
    /\ popped = {}
    /\ holder = "none"
    /\ thr = [t \in Threads |-> Idle]

SpecCommits == InitCommits /\ [][NextThreePhase]_vars

\* a Prepares or a Commits tracker
InitThreePhase ==
    /\ cls \in {"Prepares", "Commits"}
    /\ self = <<>>
    /\ last = [op |-> "init"]
    /\ before = <<>>
    /\ cast = {}
    /\ popped = {}
    /\ holder = "none"
    /\ thr = [t \in Threads |-> Idle]

SpecThreePhase == InitThreePhase /\ [][NextThreePhase]_vars

\* an InstanceChanges tracker
InitInstanceChanges ==
    /\ cls = "InstanceChanges"
    /\ self = <<>>
    /\ last = [op |-> "init"]
    /\ before = <<>>
    /\ cast = {}
    /\ popped = {}
    /\ holder = "none"
    /\ thr = [t \in Threads |-> Idle]

SpecInstanceChanges == InitInstanceChanges /\ [][Next]_vars

----------------------------------------------------------------------------
(* Concurrent callers.  Each thread takes the lock, runs one call and       *)
(* releases the lock.  addMsg runs one statement per step, the thread's     *)
(* position and locals in thr; a query is one return expression and runs    *)
(* in one step (HasMsg, HasVote, HasQuorum above, taken by either thread).  *)

\* what last records of a thread's addVote; exc is "running" until it ends
ThreadCall(t, msg, voter, exc) ==
    [op |-> "addVote", msg |-> msg, voter |-> voter, f |-> -1,
     exc |-> exc, ret |-> FALSE, thread |-> t]

\* the thread's position in addMsg and its locals msg, voter and key
Frame(pc, msg, voter, key) == [pc |-> pc, msg |-> msg, voter |-> voter, key |-> key]

\* thread t takes the lock, enters addMsg and runs key = self.getKey(msg);
\* an exception of getKey ends the call and the lock is released
T_AddVote(t) ==
    \E msg \in Inputs, voter \in Voters :
        /\ holder = "none"
        /\ thr[t] = Idle
        /\ \/ TotalVotes(self) < MaxVotes
           \/ (~getKeyRaises(msg) /\ hasVote(self, msg, voter))
        /\ before' = self
        /\ IF getKeyRaises(msg)
           THEN /\ last' = ThreadCall(t, msg, voter, "AttributeError")
                /\ UNCHANGED <<holder, thr>>
           ELSE /\ last' = ThreadCall(t, msg, voter, "running")
                /\ holder' = t
                /\ thr' = [thr EXCEPT ![t] = Frame("test", msg, voter, getKey(msg))]
        /\ UNCHANGED <<cls, self, cast, popped>>

\* if key not in self:
T_Test(t) ==
    /\ holder = t
    /\ thr[t].pc = "test"
    /\ thr' = [thr EXCEPT ![t].pc =
                  IF NeedsNewRecord(self, thr[t].key) THEN "create" ELSE "add"]
    /\ UNCHANGED <<cls, self, last, before, cast, popped, holder>>

\* self[key] = self.newVoteMsg(msg); an exception of newVoteMsg ends the
\* call and the lock is released
T_Create(t) ==
    /\ holder = t
    /\ thr[t].pc = "create"
    /\ IF newVoteMsgRaises(thr[t].msg)
       THEN /\ last' = ThreadCall(t, thr[t].msg, thr[t].voter, "AttributeError")
            /\ holder' = "none"
            /\ thr' = [thr EXCEPT ![t] = Idle]
            /\ UNCHANGED self
       ELSE /\ self' = SetItem(self, thr[t].key, newVoteMsg(thr[t].msg))
            /\ thr' = [thr EXCEPT ![t].pc = "add"]
            /\ UNCHANGED <<last, holder>>
    /\ UNCHANGED <<cls, before, cast, popped>>

\* self[key].voters.add(voter); the call returns and the lock is released
T_Add(t) ==
    /\ holder = t
    /\ thr[t].pc = "add"
    /\ self' = VotersAdd(self, thr[t].key, thr[t].voter)
    /\ last' = ThreadCall(t, thr[t].msg, thr[t].voter, "none")
    /\ cast' = cast \cup {<<thr[t].key, thr[t].voter>>}
    /\ holder' = "none"
    /\ thr' = [thr EXCEPT ![t] = Idle]
    /\ UNCHANGED <<cls, before, popped>>

InitConcurrent ==
    /\ cls \in Classes
    /\ self = <<>>
    /\ last = [op |-> "init"]
    /\ before = <<>>
    /\ cast = {}
    /\ popped = {}
    /\ holder = "none"
    /\ thr = [t \in Threads |-> Idle]

NextConcurrent ==
    \/ \E t \in Threads : T_AddVote(t)
    \/ \E t \in Threads : T_Test(t)
    \/ \E t \in Threads : T_Create(t)
    \/ \E t \in Threads : T_Add(t)
    \/ HasMsg
    \/ HasVote
    \/ HasQuorum

\* threads calling addVote and the queries of one tracker under one lock
SpecConcurrent == InitConcurrent /\ [][NextConcurrent]_vars

----------------------------------------------------------------------------
(* Vocabulary of the properties *)

\* the distinct voters whose addVote for key completed in the record's lifetime
DistinctVoters(key) == {v \in Voters : <<key, v>> \in cast}

\* the last call returned (raised nothing)
Returned(op) == last.op = op /\ last.exc = "none"

\* the (view, sequence number) pair a PREPARE or COMMIT is about
Proposal(m) == <<m.viewNo, m.ppSeqNo>>

\* the view an instance-change input is about
ViewOf(m) == IF m.type = "int" THEN m.value ELSE m.viewNo

\* the two input forms naming view v
IntForm(v) == [type |-> "int", value |-> v]

MsgForm(v) == [type |-> "InstanceChange", viewNo |-> v]

\* the input names a key: every PREPARE and COMMIT does, and an instance-change
\* input does when it is a view number or a message with a viewNo
KeyDerivable(m) == m.type \in {"Prepare", "Commit", "int", "InstanceChange"}

\* the key the input names
KeyNamed(m) == IF m.type \in {"Prepare", "Commit"} THEN Proposal(m) ELSE ViewOf(m)

\* the keys for which an addVote completed in the record's lifetime
VotedKeys == {kv[1] : kv \in cast}

\* the number of voters hasQuorum(msg, f) asks of the tracker's class
QuorumSize(f) == IF cls = "Prepares" THEN 2 * f ELSE 2 * f + 1

----------------------------------------------------------------------------
(* Quorum thresholds *)

\* C1: in a Prepares tracker, for every f and every PREPARE whose key has a
\* record, hasQuorum is true iff the number of distinct voters whose addVote
\* for that key completed is >= 2f, and a hasQuorum call returns that value.
C1_PrepareThreshold ==
    cls = "Prepares" =>
        /\ \A p \in PrepareMsgs, f \in Fs :
              Proposal(p) \in DOMAIN self =>
                  (Prepares_hasQuorum(self, p, f)
                      <=> Cardinality(DistinctVoters(Proposal(p))) >= 2 * f)
        /\ (Returned("hasQuorum") /\ Proposal(last.msg) \in DOMAIN self) =>
              (last.ret <=> Cardinality(DistinctVoters(Proposal(last.msg))) >= 2 * last.f)

\* a hasQuorum(p, 1) call on a Prepares tracker returned true with exactly 2
\* distinct voters recorded for p's key
C1_Witness ==
    /\ cls = "Prepares"
    /\ Returned("hasQuorum")
    /\ last.f = 1
    /\ last.ret
    /\ Cardinality(DistinctVoters(Proposal(last.msg))) = 2

\* C2: in a Commits tracker, for every f and every COMMIT whose key has a
\* record, hasQuorum is true iff the number of distinct voters whose addVote
\* for that key completed is >= 2f + 1, and a hasQuorum call returns that value.
C2_CommitThreshold ==
    cls = "Commits" =>
        /\ \A c \in CommitMsgs, f \in Fs :
              Proposal(c) \in DOMAIN self =>
                  (Commits_hasQuorum(self, c, f)
                      <=> Cardinality(DistinctVoters(Proposal(c))) >= 2 * f + 1)
        /\ (Returned("hasQuorum") /\ Proposal(last.msg) \in DOMAIN self) =>
              (last.ret <=> Cardinality(DistinctVoters(Proposal(last.msg))) >= 2 * last.f + 1)

\* a hasQuorum(c, 1) call on a Commits tracker returned true with exactly 3
\* distinct voters recorded for c's key
C2_Witness ==
    /\ cls = "Commits"
    /\ Returned("hasQuorum")
    /\ last.f = 1
    /\ last.ret
    /\ Cardinality(DistinctVoters(Proposal(last.msg))) = 3

\* C3: in an InstanceChanges tracker, after any addVote and pop calls, for
\* every f and every view v that has a record, hasQuorum (asked with either
\* input form) is true iff the number of distinct voters whose addVote for v
\* completed since the record was (re)created is >= 2f + 1, and a hasQuorum
\* call returns that value.
C3_InstanceChangeThreshold ==
    cls = "InstanceChanges" =>
        /\ \A m \in IntInputs \cup InstanceChangeMsgs, f \in Fs :
              ViewOf(m) \in DOMAIN self =>
                  (InstanceChanges_hasQuorum(self, m, f)
                      <=> Cardinality(DistinctVoters(ViewOf(m))) >= 2 * f + 1)
        /\ (Returned("hasQuorum") /\ ViewOf(last.msg) \in DOMAIN self) =>
              (last.ret <=> Cardinality(DistinctVoters(ViewOf(last.msg))) >= 2 * last.f + 1)

\* a hasQuorum(v, 1) call returned true with exactly 3 distinct voters recorded
\* for v since its record was created anew after a pop(v)
C3_Witness ==
    /\ cls = "InstanceChanges"
    /\ Returned("hasQuorum")
    /\ last.f = 1
    /\ last.ret
    /\ ViewOf(last.msg) \in popped
    /\ Cardinality(DistinctVoters(ViewOf(last.msg))) = 3

----------------------------------------------------------------------------
(* Monotonicity, idempotence, isolation *)

\* C4: in a Prepares or Commits tracker, for every message and every fixed f,
\* once hasQuorum(msg, f) is true it is true after every further call: no call
\* starts on a dict where it is true (before) and ends on one where it is
\* false (self).  Every call sets before to the dict it started on, so this
\* holds of every step of every run, and by induction of every later state.
C4_MonotonicQuorum ==
    cls \in {"Prepares", "Commits"} =>
        \A m \in Inputs, f \in Fs : hasQuorum(before, m, f) => hasQuorum(self, m, f)

\* an addVote returned on a tracker where hasQuorum(msg, 1) was already true
\* for its message, and hasQuorum(msg, 1) is true after it
C4_Witness ==
    /\ cls \in {"Prepares", "Commits"}
    /\ Returned("addVote")
    /\ hasQuorum(before, last.msg, 1)
    /\ hasQuorum(self, last.msg, 1)

\* C5: in all three trackers, addVote(msg, voter) with voter already recorded
\* for msg's key returns and leaves the whole registry (keys and voter sets,
\* hence sizes and quorum answers) as it was.
C5_IdempotentVoting ==
    (/\ last.op = "addVote"
     /\ KeyDerivable(last.msg)
     /\ KeyNamed(last.msg) \in DOMAIN before
     /\ last.voter \in before[KeyNamed(last.msg)].voters)
        => (last.exc = "none" /\ self = before)

\* an addVote was called for a voter already recorded under a key that held
\* two voters
C5_Witness ==
    /\ last.op = "addVote"
    /\ KeyDerivable(last.msg)
    /\ KeyNamed(last.msg) \in DOMAIN before
    /\ last.voter \in before[KeyNamed(last.msg)].voters
    /\ Cardinality(before[KeyNamed(last.msg)].voters) = 2

\* C6: in a Prepares or Commits tracker, addVote for (view, seq) leaves the
\* record of every other key as it was (existence and voter set), so the
\* presence, membership and quorum queries for any other key answer the same
\* before and after the call.
C6_KeyIsolation ==
    (cls \in {"Prepares", "Commits"} /\ last.op = "addVote") =>
        \A m \in Inputs :
            Proposal(m) # Proposal(last.msg) =>
                /\ (Proposal(m) \in DOMAIN self) = (Proposal(m) \in DOMAIN before)
                /\ Proposal(m) \in DOMAIN before => self[Proposal(m)] = before[Proposal(m)]
                /\ hasMsg(self, m) = hasMsg(before, m)
                /\ \A x \in Voters : hasVote(self, m, x) = hasVote(before, m, x)
                /\ \A f \in Fs : hasQuorum(self, m, f) = hasQuorum(before, m, f)

\* an addVote for a key created its record while a key of the same view with
\* another seq and a key of the same seq in another view held records
C6_Witness ==
    /\ cls \in {"Prepares", "Commits"}
    /\ Returned("addVote")
    /\ Proposal(last.msg) \notin DOMAIN before
    /\ \E k \in DOMAIN before : k[1] = last.msg.viewNo /\ k[2] # last.msg.ppSeqNo
    /\ \E k \in DOMAIN before : k[1] # last.msg.viewNo /\ k[2] = last.msg.ppSeqNo

----------------------------------------------------------------------------
(* InstanceChanges: the two input forms, and pop *)

\* C7: InstanceChanges.addVote accepts both input forms: for every view v and
\* voter x, in every state (also one where v has no record), addVote(v, x) with
\* the raw view number v returns and leaves the registry exactly as addVote
\* with a message whose viewNo is v would; the call raises only when no key
\* can be derived from the input.
C7_AddVoteAcceptsBothForms ==
    (cls = "InstanceChanges" /\ last.op = "addVote") =>
        /\ (last.exc # "none") <=> ~KeyDerivable(last.msg)
        /\ KeyDerivable(last.msg) =>
              self = addMsg(before, MsgForm(ViewOf(last.msg)), last.voter)

\* C8: in every state of an InstanceChanges tracker, for every view v, voter x
\* and f, hasView, hasInstChngFrom and hasQuorum answer the same for the raw
\* view number v and for a message whose viewNo is v, and a query that was
\* called with one form returned what the other form gives.
C8_DualKeyInputQueries ==
    cls = "InstanceChanges" =>
        /\ \A v \in Views :
              /\ ~getKeyRaises(IntForm(v)) /\ ~getKeyRaises(MsgForm(v))
              /\ hasMsg(self, IntForm(v)) = hasMsg(self, MsgForm(v))
              /\ \A x \in Voters :
                    hasVote(self, IntForm(v), x) = hasVote(self, MsgForm(v), x)
              /\ \A f \in Fs :
                    InstanceChanges_hasQuorum(self, IntForm(v), f)
                        = InstanceChanges_hasQuorum(self, MsgForm(v), f)
        /\ (last.op = "hasMsg" /\ last.msg.type = "int") =>
              (last.exc = "none" /\ last.ret = hasMsg(self, MsgForm(last.msg.value)))
        /\ (last.op = "hasVote" /\ last.msg.type = "int") =>
              (last.exc = "none"
                  /\ last.ret = hasVote(self, MsgForm(last.msg.value), last.voter))
        /\ (last.op = "hasQuorum" /\ last.msg.type = "int") =>
              (last.exc = "none"
                  /\ last.ret = InstanceChanges_hasQuorum(self, MsgForm(last.msg.value), last.f))

\* hasQuorum(v, 1) was asked with the raw view number of a view that holds a
\* record and returned true; another view holds no record
C8_Witness ==
    /\ cls = "InstanceChanges"
    /\ Returned("hasQuorum")
    /\ last.msg.type = "int"
    /\ last.f = 1
    /\ last.ret
    /\ \E v \in Views : v \notin DOMAIN self

\* C9: after InstanceChanges.pop(v), hasView(v) is false, hasInstChngFrom(v, x)
\* is false for every voter x and hasQuorum(v, f) is false for every f; and an
\* addVote for view v by voter y that follows a pop(v), with no addVote for v
\* completed in between, yields a record for v whose voter set is exactly {y}.
C9_DiscardForgets ==
    cls = "InstanceChanges" =>
        /\ Returned("pop") =>
              \A m \in {IntForm(last.msg.value), MsgForm(last.msg.value)} :
                  /\ ~hasMsg(self, m)
                  /\ \A x \in Voters : ~hasVote(self, m, x)
                  /\ \A f \in Fs : ~InstanceChanges_hasQuorum(self, m, f)
        /\ (/\ last.op = "addVote"
            /\ KeyDerivable(last.msg)
            /\ ViewOf(last.msg) \in popped
            /\ ViewOf(last.msg) \notin DOMAIN before)
              => (/\ ViewOf(last.msg) \in DOMAIN self
                  /\ self[ViewOf(last.msg)].voters = {last.voter})

\* C10: InstanceChanges.pop(v) never raises; when v has no record the whole
\* registry is left as it was, and when v has a record only that record is
\* removed: every other view's record exists as before with the same voters.
C10_DiscardFrame ==
    (cls = "InstanceChanges" /\ last.op = "pop") =>
        LET v == last.msg.value IN
            /\ last.exc = "none"
            /\ v \notin DOMAIN before => self = before
            /\ v \in DOMAIN before => DOMAIN self = DOMAIN before \ {v}
            /\ \A k \in DOMAIN before \ {v} : k \in DOMAIN self /\ self[k] = before[k]

\* pop(v) removed a record while another view held a record of two voters
C10_Witness ==
    /\ cls = "InstanceChanges"
    /\ Returned("pop")
    /\ last.msg.value \in DOMAIN before
    /\ last.msg.value \notin DOMAIN self
    /\ \E k \in DOMAIN self : Cardinality(self[k].voters) = 2

----------------------------------------------------------------------------
(* Absent keys, lifetimes of records, exactness of the queries *)

QueryOps == {"hasMsg", "hasVote", "hasQuorum"}

\* C11: in all three trackers, for a key with no record, the presence query,
\* the membership query (any voter) and hasQuorum (any f >= 0, also f = 0
\* where the Prepare threshold 2f is 0) are false and raise nothing; a query
\* that was called for such a key returned false.
C11_AbsentKeysAreFalse ==
    /\ \A m \in Inputs :
          (KeyDerivable(m) /\ KeyNamed(m) \notin DOMAIN self) =>
              /\ ~getKeyRaises(m)
              /\ ~hasMsg(self, m)
              /\ \A x \in Voters : ~hasVote(self, m, x)
              /\ \A f \in Fs : ~hasQuorum(self, m, f)
    /\ (/\ last.op \in QueryOps
        /\ KeyDerivable(last.msg)
        /\ KeyNamed(last.msg) \notin DOMAIN before)
          => (last.exc = "none" /\ last.ret = FALSE)

\* hasQuorum(p, 0) was asked of a Prepares tracker for a key with no record,
\* while another key held a record, and returned false
C11_Witness ==
    /\ cls = "Prepares"
    /\ Returned("hasQuorum")
    /\ last.f = 0
    /\ Proposal(last.msg) \notin DOMAIN self
    /\ DOMAIN self # {}
    /\ last.ret = FALSE

\* C12: in an InstanceChanges tracker no call other than pop(v) takes a member
\* out of view v's voter set or removes v's record (addVote calls and pop calls
\* on other views leave it at least as it was), and hasQuorum(v, f), once true
\* for a fixed f, stays true until pop(v) is called; in a Prepares or Commits
\* tracker no call makes a key's voter set smaller or removes its record.
\* (before is the dict the last call started on, so this speaks of every step.)
C12_MonotonicWithinLifetime ==
    \A k \in DOMAIN before :
        (cls = "InstanceChanges" /\ last.op = "pop" /\ last.msg.value = k)
        \/ (/\ k \in DOMAIN self
            /\ before[k].voters \subseteq self[k].voters
            /\ Cardinality(self[k].voters) >= Cardinality(before[k].voters)
            /\ cls = "InstanceChanges" =>
                  \A f \in Fs : InstanceChanges_hasQuorum(before, IntForm(k), f)
                                   => InstanceChanges_hasQuorum(self, IntForm(k), f))

\* pop was called for one view while the other view had reached quorum for
\* f = 1, and that view still has it
C12_Witness ==
    /\ cls = "InstanceChanges"
    /\ Returned("pop")
    /\ \E v \in Views :
          /\ v # last.msg.value
          /\ InstanceChanges_hasQuorum(before, IntForm(v), 1)
          /\ InstanceChanges_hasQuorum(self, IntForm(v), 1)

\* C13: in every state reached by addVote calls, queries and (InstanceChanges)
\* pop calls, every record of the registry has a non-empty voter set, and a
\* key has a record iff an addVote for it has completed since the registry
\* was created or, for a view, since the last pop of that view.
C13_NoEmptyRecords ==
    /\ \A k \in DOMAIN self : self[k].voters # {}
    /\ \A k \in DOMAIN self : DistinctVoters(k) # {}
    /\ \A kv \in cast : kv[1] \in DOMAIN self

\* an InstanceChanges tracker was queried for a view that was popped and has
\* no record, while the other view holds a record created anew after a pop
C13_Witness ==
    /\ cls = "InstanceChanges"
    /\ last.op \in QueryOps
    /\ KeyDerivable(last.msg)
    /\ ViewOf(last.msg) \in popped
    /\ ViewOf(last.msg) \notin DOMAIN self
    /\ \E v \in DOMAIN self : v \in popped

----------------------------------------------------------------------------
(* The digest *)

\* C15: in a Prepares or Commits tracker the digest is no part of the key:
\* messages with the same (viewNo, ppSeqNo) and different digests have the
\* same key and one vote record, an addVote leaves the registry as the same
\* call with any other digest would, and afterwards the voter is recorded
\* and hasQuorum answers the same for the message of every digest; so votes
\* for conflicting digests add up to one quorum.
C15_DigestNotInKey ==
    (cls \in {"Prepares", "Commits"} /\ last.op = "addVote") =>
        /\ DOMAIN self \subseteq Proposals
        /\ \A m \in Inputs :
              Proposal(m) = Proposal(last.msg) =>
                  /\ getKey(m) = getKey(last.msg)
                  /\ self = addMsg(before, m, last.voter)
                  /\ hasVote(self, m, last.voter)
                  /\ \A f \in Fs : hasQuorum(self, m, f) = hasQuorum(self, last.msg, f)

\* with f = 1, a Prepares tracker held one voter under (view, seq), whichever
\* digest that vote carried; a second voter's PREPARE with digest d2 was added,
\* and hasQuorum is true for the message with d1 and for the message with d2,
\* one record holding both voters
C15_Witness ==
    /\ cls = "Prepares"
    /\ Returned("addVote")
    /\ last.msg.digest = "d2"
    /\ Proposal(last.msg) \in DOMAIN before
    /\ Cardinality(before[Proposal(last.msg)].voters) = 1
    /\ last.voter \notin before[Proposal(last.msg)].voters
    /\ DOMAIN self = {Proposal(last.msg)}
    /\ Prepares_hasQuorum(self, [last.msg EXCEPT !.digest = "d1"], 1)
    /\ Prepares_hasQuorum(self, [last.msg EXCEPT !.digest = "d2"], 1)

----------------------------------------------------------------------------
(* Queries, record fields, thresholds *)

\* C18: the presence, membership and quorum queries of all three trackers are
\* read-only: after a query, whether it returned or raised, the registry is
\* the one it was called on; a query on a key without a record creates none,
\* and every query answers afterwards as it did before.
C18_QueriesReadOnly ==
    last.op \in QueryOps =>
        /\ self = before
        /\ DOMAIN self = DOMAIN before
        /\ \A m \in Inputs :
              KeyDerivable(m) =>
                  /\ hasMsg(self, m) = hasMsg(before, m)
                  /\ \A x \in Voters : hasVote(self, m, x) = hasVote(before, m, x)
                  /\ \A f \in Fs : hasQuorum(self, m, f) = hasQuorum(before, m, f)

\* a query returned on a key without a record while other keys have records,
\* and the key still has none
C18_Witness ==
    /\ last.op \in QueryOps
    /\ last.exc = "none"
    /\ self # <<>>
    /\ KeyNamed(last.msg) \notin DOMAIN self
    /\ ~last.ret

\* C19: every record of an Instance-Change tracker stored under key v carries
\* viewNo = v, also a record created again after a discard.
C19_RecordViewIsKey ==
    cls = "InstanceChanges" =>
        \A v \in DOMAIN self :
            /\ self[v].viewNo = v
            /\ self[v] = InsChgVotes(v, DistinctVoters(v))

\* view v was discarded and has a record again, made by a later message
C19_Witness ==
    /\ cls = "InstanceChanges"
    /\ Returned("addVote")
    /\ last.msg = MsgForm(ViewOf(last.msg))
    /\ ViewOf(last.msg) \in popped
    /\ ViewOf(last.msg) \notin DOMAIN before
    /\ ViewOf(last.msg) \in DOMAIN self

\* C20: hasQuorum is antitone in f (true for f, it is true for every smaller
\* f' >= 0), as the vote-count test below it is antitone in the count; and on
\* the same record the 2f + 1 threshold of Commits and InstanceChanges implies
\* the 2f threshold of Prepares, the two differing exactly when the record has
\* 2f voters.
C20_QuorumAntitone ==
    \A m \in Inputs :
        KeyDerivable(m) =>
            /\ \A f \in Fs, g \in Fs :
                  (g <= f /\ hasQuorum(self, m, f)) => hasQuorum(self, m, g)
            /\ \A c \in 0..(2 * MaxF + 1), b \in 0..(2 * MaxF + 1) :
                  (b <= c /\ hasEnoughVotes(self, m, c)) => hasEnoughVotes(self, m, b)
            /\ \A f \in Fs :
                  /\ Commits_hasQuorum(self, m, f) => Prepares_hasQuorum(self, m, f)
                  /\ InstanceChanges_hasQuorum(self, m, f) => Prepares_hasQuorum(self, m, f)
                  /\ (Prepares_hasQuorum(self, m, f) /\ ~Commits_hasQuorum(self, m, f))
                        <=> (hasMsg(self, m) /\ Cardinality(self[KeyNamed(m)].voters) = 2 * f)

\* hasQuorum(msg, 1) returned True on a record of exactly two voters: the
\* Prepare threshold is met (also for f = 0), the 2f + 1 threshold is not
C20_Witness ==
    /\ Returned("hasQuorum")
    /\ cls = "Prepares"
    /\ last.f = 1
    /\ last.ret
    /\ Cardinality(self[KeyNamed(last.msg)].voters) = 2
    /\ Prepares_hasQuorum(self, last.msg, 0)
    /\ ~Commits_hasQuorum(self, last.msg, 1)

----------------------------------------------------------------------------
(* Order of votes *)

\* C17: the order of addVote calls is irrelevant: the last addVote call
\* exchanged with any addVote call that follows it gives the same registry
\* (the same keys, the same voter set per key), so every permutation of a
\* sequence of addVote calls without a discard between them ends in the same
\* registry and gives the same answers to all queries.
C17_VoteOrderIrrelevant ==
    last.op = "addVote" =>
        \A m \in Inputs, x \in Voters :
            addMsg(addMsg(before, last.msg, last.voter), m, x)
                = addMsg(addMsg(before, m, x), last.msg, last.voter)

----------------------------------------------------------------------------
(* Callers in several threads *)

\* C16: with every addVote and query call of several threads run under one
\* lock, at most one thread is inside a call, no completed vote is ever
\* missing from the registry, and whenever no call is running each key's
\* voter set is exactly the set of distinct voters whose addVote for the key
\* completed; an addVote leaves the registry the atomic call would leave, and
\* every query returns what the calls completed before it, run one after the
\* other in the order they took the lock, make it return.
C16_SerializedAccess ==
    /\ \A t \in Threads : (thr[t] # Idle) <=> (holder = t)
    /\ \A kv \in cast : kv[1] \in DOMAIN self /\ kv[2] \in self[kv[1]].voters
    /\ holder = "none" =>
          /\ DOMAIN self = VotedKeys
          /\ \A k \in DOMAIN self : self[k].voters = DistinctVoters(k)
          /\ last.op = "addVote" =>
                /\ last.exc = addMsgRaises(before, last.msg)
                /\ self = addMsg(before, last.msg, last.voter)
          /\ Returned("addVote") => hasVote(self, last.msg, last.voter)
          /\ Returned("hasMsg") => (last.ret <=> KeyNamed(last.msg) \in VotedKeys)
          /\ Returned("hasVote") =>
                (last.ret <=> <<KeyNamed(last.msg), last.voter>> \in cast)
          /\ Returned("hasQuorum") =>
                (last.ret <=>
                    /\ KeyNamed(last.msg) \in VotedKeys
                    /\ Cardinality(DistinctVoters(KeyNamed(last.msg))) >= QuorumSize(last.f))

\* thread T2's addVote returned: it took the lock after an earlier vote for the
\* same key had completed, found the record and added its voter to it
C16_Witness ==
    /\ Returned("addVote")
    /\ last.thread = "T2"
    /\ holder = "none"
    /\ KeyNamed(last.msg) \in DOMAIN before
    /\ last.voter \notin before[KeyNamed(last.msg)].voters
    /\ self[KeyNamed(last.msg)].voters
          = before[KeyNamed(last.msg)].voters \cup {last.voter}
    /\ Cardinality(DistinctVoters(KeyNamed(last.msg))) >= 2

====
